---- MODULE Spec2Model ----
(***************************************************************************)
(* Watchlog RUM for React (src/src/index.tsx): the identity, sampling,     *)
(* queueing and transport pipeline as a state machine.                     *)
(*                                                                         *)
(* Units: sample rates and Math.random() draws are in percent (1.0 = 100); *)
(* times are in abstract clock units; sizes are serialized bytes.          *)
(***************************************************************************)
EXTENDS Integers, Sequences, FiniteSets, TLC

VARIABLES
  current,                \* let current: InternalState | null
  lsDevice,               \* localStorage[LS_DEVICE_KEY]
  lsSession,              \* localStorage[LS_SESSION_KEY]
  clock,                  \* Date.now()
  pendingRouteManifest,   \* let pendingRouteManifest
  pendingPathNormalizer,  \* let pendingPathNormalizer
  hasSentInitialPV,       \* let hasSentInitialPV
  routeManifestReady,     \* let routeManifestReady
  flushTimers,            \* number of live setInterval flush timers
  races,                  \* per startup: the 16 ms poll and the 800 ms fallback
  listeners,              \* window listeners currently registered, by kind
  net,                    \* transport calls made so far (sendBeacon / fetch)
  made,                   \* number of events constructed so far
  uuids,                  \* number of uuid() results handed out so far
  starts,                 \* number of pipelines built so far
  drawn,                  \* history: session id -> the sampling draw at creation
  appConfig,              \* the config object the host passes to startRum
  budget,                 \* bound: events the behaviour may construct
  last,                   \* history: what the last handler did
  justStarted,            \* history: startRum built the pipeline in the last step
  lastNormalizer,         \* history: the argument of the latest setPathNormalizer
  expired,                \* history: session ids whose record has been older
                          \* than the TTL of appConfig
  tabs                    \* per browser tab sharing the storage: where its
                          \* session call stands and the values it holds

vars == <<current, lsDevice, lsSession, clock, pendingRouteManifest,
          pendingPathNormalizer, hasSentInitialPV, routeManifestReady,
          flushTimers, races, listeners, net, made, uuids, starts, drawn,
          appConfig, budget, last, justStarted, lastNormalizer, expired,
          tabs>>

----------------------------------------------------------------------------
(* Bounds of the model *)

MaxEvents == 2
\* events built per behaviour of the two-event example: the initial page
\* view, "a" and "b"
ExampleEvents == 3
\* events built per behaviour where sampling is the subject
SamplingEvents == 1
MaxStarts == 2
\* browser tabs that share localStorage
MaxTabs == 2
MaxLoads == 3
MaxTime == 2
MaxTtl == 2
MaxBatch == 2
SmallCap == 2
BigEvent == 3

(* Program constants *)

DEFAULT_SAMPLE_RATE == 10
DEFAULT_BATCH_MAX == 50
DEFAULT_MAX_QUEUE_BYTES == 256000
DEFAULT_SESSION_TTL == 1800000

Null == [null |-> TRUE]
Undefined == <<>>
None == [kind |-> "none"]
Corrupt == [kind |-> "corrupt"]
\* a stored text that parses to a value that is no object (a number, null)
NonObject == [kind |-> "nonobject"]
\* a call that ended by throwing
Thrown == [thrown |-> TRUE]

Some(v) == <<v>>

(* Inputs *)

SampleRates == {Undefined, Some(0), Some(100)}
Randoms == {0, 50}
BatchMaxes == {Undefined} \cup {Some(n) : n \in 1..MaxBatch}
ByteCaps == {Undefined, Some(SmallCap)}
Hooks == {Undefined, Some("dropDebug"), Some("scrub")}
Ttls == {Some(t) : t \in 1..MaxTtl}
AutoTracks == {Undefined, Some(FALSE)}
Normalizers == {"fnA", "fnB"}
Manifests == {"routesA"}
DebugNames == {"debug_x"}
StorageModes == {"ok", "throwsOnSet", "throws"}
BeaconModes == {"absent", "ok", "false", "throws"}

\* trackEvent(name, data): the calls the model makes
TrackCalls ==
  {[name |-> "a", data |-> 0], [name |-> "debug_x", data |-> 0]}
    \cup {[name |-> "a", data |-> d] : d \in (SmallCap - 1)..(BigEvent - 1)}

\* startRum(config): queue-side options vary; no automatic initial page view,
\* the session's TTL is the default
QueueConfigs ==
  [sampleRate : {Some(100)}, batchMax : BatchMaxes, maxQueueBytes : ByteCaps,
   beforeSend : Hooks, sessionTtlMs : {Undefined},
   autoTrackInitialView : {Some(FALSE)}, captureErrors : {Undefined},
   routeManifest : {Undefined}, getNormalizedPath : {Undefined}]

\* startRum(config): session-side options vary, the rest are the defaults
SessionConfigs ==
  [sampleRate : SampleRates, batchMax : {Undefined}, maxQueueBytes : {Undefined},
   beforeSend : {Undefined}, sessionTtlMs : Ttls,
   autoTrackInitialView : {Undefined}, captureErrors : {Undefined},
   routeManifest : {Undefined}, getNormalizedPath : {Undefined}]

\* startRum({sampleRate: 1.0, batchMax: 2}), with or without the initial view
ExampleConfigs ==
  [sampleRate : {Some(100)}, batchMax : {Some(2)}, maxQueueBytes : {Undefined},
   beforeSend : {Undefined}, sessionTtlMs : {Undefined},
   autoTrackInitialView : AutoTracks, captureErrors : {Undefined},
   routeManifest : {Undefined}, getNormalizedPath : {Undefined}]

\* startRum({beforeSend: scrub}): the default sample rate, so that the draw
\* decides; the hook set, so that its invocation shows
SamplingConfigs ==
  [sampleRate : {Undefined}, batchMax : {Undefined}, maxQueueBytes : {Undefined},
   beforeSend : {Some("scrub")}, sessionTtlMs : {Undefined},
   autoTrackInitialView : {Undefined}, captureErrors : {Undefined},
   routeManifest : {Undefined}, getNormalizedPath : {Undefined}]

\* startRum({sampleRate: 1.0, batchMax: 1}): the automatic initial page view
\* on, every event sent as soon as it is queued
RaceConfigs ==
  [sampleRate : {Some(100)}, batchMax : {Some(1)}, maxQueueBytes : {Undefined},
   beforeSend : {Undefined}, sessionTtlMs : {Undefined},
   autoTrackInitialView : {Undefined}, captureErrors : {Undefined},
   routeManifest : {Undefined}, getNormalizedPath : {Undefined}]

\* startRum({sampleRate: 1.0, batchMax: 2, beforeSend: a hook that throws on
\* custom events named debug_*})
HookFaultConfigs ==
  [sampleRate : {Some(100)}, batchMax : {Some(2)}, maxQueueBytes : {Undefined},
   beforeSend : {Some("throwsDebug")}, sessionTtlMs : {Undefined},
   autoTrackInitialView : {Some(FALSE)}, captureErrors : {Undefined},
   routeManifest : {Undefined}, getNormalizedPath : {Undefined}]

\* startRum({sampleRate: 1.0, autoTrackInitialView: false}), with or without
\* the error handlers: two or three teardowns registered
ShutdownConfigs ==
  [sampleRate : {Some(100)}, batchMax : {Undefined}, maxQueueBytes : {Undefined},
   beforeSend : {Undefined}, sessionTtlMs : {Undefined},
   autoTrackInitialView : {Some(FALSE)}, captureErrors : {Undefined, Some(FALSE)},
   routeManifest : {Undefined}, getNormalizedPath : {Undefined}]

\* startRum of an unsampled pipeline whose config sets the normalizer, the
\* route manifest, both or neither
SetterConfigs ==
  [sampleRate : {Some(0)}, batchMax : {Undefined}, maxQueueBytes : {Undefined},
   beforeSend : {Undefined}, sessionTtlMs : {Undefined},
   autoTrackInitialView : {Some(FALSE)}, captureErrors : {Undefined},
   routeManifest : {Undefined, Some("routesC")},
   getNormalizedPath : {Undefined, Some("fnC")}]

\* startRum({sampleRate: 1.0, sessionTtlMs: 1, autoTrackInitialView: false})
ExpiryConfigs ==
  [sampleRate : {Some(100)}, batchMax : {Undefined}, maxQueueBytes : {Undefined},
   beforeSend : {Undefined}, sessionTtlMs : {Some(1)},
   autoTrackInitialView : {Some(FALSE)}, captureErrors : {Undefined, Some(FALSE)},
   routeManifest : {Undefined}, getNormalizedPath : {Undefined}]

\* startRum of a sampled pipeline without hook and initial view: the batch
\* threshold and the byte cap vary
LiveConfigs == {c \in QueueConfigs : c.beforeSend = Undefined}

\* what a second startRum passes: unlike every config of QueueConfigs
AgainConfigs ==
  {c \in SessionConfigs : c.sampleRate = Some(0) /\ c.sessionTtlMs = Some(1)}

RumConfig == QueueConfigs \cup SessionConfigs \cup ExampleConfigs

----------------------------------------------------------------------------
(* Helpers *)

\* a ?? b
OrElse(a, b) == IF a = Undefined THEN b ELSE a[1]

\* a ?? p ?? undefined, the result still optional
OrPending(a, p) == IF a # Undefined THEN a ELSE p

IsRecord(v) == v # None /\ v # Corrupt /\ v # NonObject

\* what a handler did, empty at its start: op is the kind of handler, flushes
\* the payloads it built, calls its transport calls, append the queue length
\* its push produced (0: no push), byteFlush / tooBig the byte-cap branches of
\* enqueue, hook what beforeSend returned, pv a page view built, renewed the
\* persisted session taken over, beacon the beacon transport it used, escaped
\* an exception left the handler for its caller, teardowns the teardown
\* callbacks it invoked
G0 ==
  [op |-> "", flushes |-> 0, calls |-> 0, append |-> 0, byteFlush |-> FALSE,
   tooBig |-> FALSE, hook |-> "none", pv |-> FALSE, renewed |-> FALSE,
   beacon |-> "absent", escaped |-> FALSE, teardowns |-> 0]

World ==
  [cur |-> current, lsDevice |-> lsDevice, lsSession |-> lsSession,
   hasPV |-> hasSentInitialPV, flushTimers |-> flushTimers, races |-> races,
   listeners |-> listeners, net |-> net, made |-> made, uuids |-> uuids,
   starts |-> starts, drawn |-> drawn, g |-> G0]

----------------------------------------------------------------------------
(* Configuration *)

\* mutant: startup ignores what the setters cached
applyDefaultsNoPending(cfg) ==
  [sampleRate |-> OrElse(cfg.sampleRate, DEFAULT_SAMPLE_RATE),
   batchMax |-> OrElse(cfg.batchMax, DEFAULT_BATCH_MAX),
   maxQueueBytes |-> OrElse(cfg.maxQueueBytes, DEFAULT_MAX_QUEUE_BYTES),
   sessionTtlMs |-> OrElse(cfg.sessionTtlMs, DEFAULT_SESSION_TTL),
   routeManifest |-> cfg.routeManifest,
   getNormalizedPath |-> cfg.getNormalizedPath,
   autoTrackInitialView |-> OrElse(cfg.autoTrackInitialView, TRUE),
   captureErrors |-> OrElse(cfg.captureErrors, TRUE),
   beforeSend |-> cfg.beforeSend]

applyDefaults(cfg) ==
  [sampleRate |-> OrElse(cfg.sampleRate, DEFAULT_SAMPLE_RATE),
   batchMax |-> OrElse(cfg.batchMax, DEFAULT_BATCH_MAX),
   maxQueueBytes |-> OrElse(cfg.maxQueueBytes, DEFAULT_MAX_QUEUE_BYTES),
   sessionTtlMs |-> OrElse(cfg.sessionTtlMs, DEFAULT_SESSION_TTL),
   routeManifest |-> OrPending(cfg.routeManifest, pendingRouteManifest),
   getNormalizedPath |-> OrPending(cfg.getNormalizedPath, pendingPathNormalizer),
   autoTrackInitialView |-> OrElse(cfg.autoTrackInitialView, TRUE),
   captureErrors |-> OrElse(cfg.captureErrors, TRUE),
   beforeSend |-> cfg.beforeSend]

----------------------------------------------------------------------------
(* Session / Device.  st is how localStorage behaves during the call:       *)
(* "ok", "throwsOnSet" (setItem throws), "throws" (getItem and setItem      *)
(* throw).  Each operator returns the world after the call and the value v  *)
(* it returns.                                                              *)

\* uuid(): a new identifier, never handed out before
uuid(w) == [w |-> [w EXCEPT !.uuids = @ + 1], v |-> w.uuids + 1]

\* Math.random() < sampleRate
Bernoulli(r, sampleRate) == r < sampleRate

getOrCreateDeviceId(w, st) ==
  IF st = "throws" THEN uuid(w)
  ELSE IF w.lsDevice # Undefined THEN [w |-> w, v |-> w.lsDevice[1]]
  ELSE LET u == uuid(w) IN
       IF st = "throwsOnSet" THEN uuid(u.w)
       ELSE [w |-> [u.w EXCEPT !.lsDevice = Some(u.v)], v |-> u.v]

\* the record created when no usable one is persisted; r1 and r2 are the
\* Math.random() results of the try body and of the catch clause
CreateSession(w, sampleRate, st, r1, r2) ==
  LET u == uuid(w)
      v == [id |-> u.v, sampled |-> Bernoulli(r1, sampleRate), last |-> clock]
  IN IF st = "ok"
     THEN [w |-> [u.w EXCEPT !.lsSession = v,
                             !.drawn = (v.id :> v.sampled) @@ @],
           v |-> v]
     ELSE LET u2 == uuid(u.w)
              v2 == [id |-> u2.v, sampled |-> Bernoulli(r2, sampleRate),
                     last |-> clock]
          IN [w |-> [u2.w EXCEPT !.drawn = (v2.id :> v2.sampled) @@ @],
              v |-> v2]

RenewSession(w, v) ==
  LET updated == [v EXCEPT !.last = clock]
  IN [w |-> [w EXCEPT !.lsSession = updated, !.g.renewed = TRUE], v |-> updated]

\* mutant: a renewal draws the sampling flag again
loadOrCreateSessionRedraw(w, sampleRate, ttlMs, st, r1, r2) ==
  IF st = "ok" /\ IsRecord(w.lsSession) /\ clock - w.lsSession.last < ttlMs
  THEN RenewSession(w, [w.lsSession EXCEPT
                          !.sampled = Bernoulli(r1, sampleRate)])
  ELSE CreateSession(w, sampleRate, st, r1, r2)

\* mutant: a record whose age equals the TTL is still renewed
loadOrCreateSessionInclusive(w, sampleRate, ttlMs, st, r1, r2) ==
  IF st = "ok" /\ IsRecord(w.lsSession) /\ clock - w.lsSession.last <= ttlMs
  THEN RenewSession(w, w.lsSession)
  ELSE CreateSession(w, sampleRate, st, r1, r2)

loadOrCreateSession(w, sampleRate, ttlMs, st, r1, r2) ==
  IF st = "throws"
  THEN LET u == uuid(w)
           v == [id |-> u.v, sampled |-> Bernoulli(r2, sampleRate),
                 last |-> clock]
       IN [w |-> [u.w EXCEPT !.drawn = (v.id :> v.sampled) @@ @], v |-> v]
  ELSE IF IsRecord(w.lsSession) /\ clock - w.lsSession.last < ttlMs
          /\ st = "ok"
       THEN RenewSession(w, w.lsSession)
       ELSE CreateSession(w, sampleRate, st, r1, r2)

\* current?.config.getNormalizedPath applied to the pathname, "literal" being
\* the pathname itself
computeNormalizedPath(w) ==
  IF w.cur # Null /\ w.cur.config.getNormalizedPath # Undefined
  THEN w.cur.config.getNormalizedPath[1]
  ELSE "literal"

\* mutant: the write is taken to succeed whatever the storage does
refreshSessionActivityBlind(w, st) ==
  IF ~IsRecord(w.lsSession) THEN w
  ELSE [w EXCEPT !.lsSession.last = clock]

\* mutant: with no record stored, one is written
refreshSessionActivityCreates(w, st) ==
  IF st # "ok" THEN w
  ELSE IF ~IsRecord(w.lsSession)
  THEN [w EXCEPT !.lsSession = [id |-> 0, sampled |-> FALSE, last |-> clock]]
  ELSE [w EXCEPT !.lsSession.last = clock]

refreshSessionActivity(w, st) ==
  IF st # "ok" \/ ~IsRecord(w.lsSession) THEN w
  ELSE [w EXCEPT !.lsSession.last = clock]

----------------------------------------------------------------------------
(* Queue & Transport *)

\* (current.seq += 1), the event's seq being the new value
nextSeq(w) == IF w.cur # Null THEN [w EXCEPT !.cur.seq = @ + 1] ELSE w

safeJsonSize(w, bytes) ==
  bytes <= (IF w.cur # Null THEN w.cur.config.maxQueueBytes
            ELSE DEFAULT_MAX_QUEUE_BYTES)

\* one call of navigator.sendBeacon or fetch with the serialized payload;
\* threw: the call raised an exception instead of taking the payload
Transport(w, via, threw, payload) ==
  [w EXCEPT !.net = Append(@, [via |-> via, threw |-> threw,
                                sessionId |-> payload.sessionId,
                                deviceId |-> payload.deviceId,
                                run |-> w.starts,
                                events |-> payload.events]),
            !.g.calls = @ + 1]

\* mutant: the drain leaves the events in the queue
drainKeeps(w, useBeacon, beacon) ==
  Transport([w EXCEPT !.g.flushes = @ + 1], "fetch", FALSE,
            [sessionId |-> w.cur.sessionId, deviceId |-> w.cur.deviceId,
             events |-> w.cur.queue])

\* mutant: a beacon that fails puts the events back
drainRequeues(w, useBeacon, beacon) ==
  LET payload == [sessionId |-> w.cur.sessionId,
                  deviceId |-> w.cur.deviceId,
                  events |-> w.cur.queue]
      w1 == [w EXCEPT !.g.flushes = @ + 1]
  IN IF useBeacon /\ beacon \in {"false", "throws"}
     THEN Transport([w1 EXCEPT !.g.beacon = beacon], "beacon",
                    beacon = "throws", payload)
     ELSE Transport([w1 EXCEPT !.cur.queue = <<>>, !.cur.queueBytes = 0],
                    IF useBeacon /\ beacon = "ok" THEN "beacon" ELSE "fetch",
                    FALSE, payload)

\* flushQueue past its first line: the payload, the reset of the queue and
\* the transport; beacon is what navigator.sendBeacon is during this call
drain(w, useBeacon, beacon) ==
  LET payload == [sessionId |-> w.cur.sessionId,
                  deviceId |-> w.cur.deviceId,
                  events |-> w.cur.queue]
      w1 == [w EXCEPT !.cur.queue = <<>>, !.cur.queueBytes = 0,
                      !.g.flushes = @ + 1]
  IN IF useBeacon /\ beacon # "absent"
     THEN LET w2 == Transport([w1 EXCEPT !.g.beacon = beacon],
                              "beacon", beacon = "throws", payload)
          IN IF beacon = "throws"
             THEN Transport(w2, "fetch", FALSE, payload)
             ELSE w2
     ELSE Transport(w1, "fetch", FALSE, payload)

\* mutant: the empty queue is sent too
flushQueueAlways(w, useBeacon, beacon) ==
  IF w.cur = Null THEN w ELSE drain(w, useBeacon, beacon)

\* mutant: the beacon mode is ignored
flushQueueFetchOnly(w, useBeacon, beacon) ==
  IF w.cur = Null \/ Len(w.cur.queue) = 0 THEN w
  ELSE drain(w, FALSE, beacon)

flushQueue(w, useBeacon, beacon) ==
  IF w.cur = Null \/ Len(w.cur.queue) = 0 THEN w
  ELSE drain(w, useBeacon, beacon)

\* mutant: the threshold is passed only beyond batchMax
pushStrict(w, event) ==
  LET w1 == [w EXCEPT !.cur.queue = Append(@, event),
                      !.cur.queueBytes = @ + event.bytes,
                      !.g.append = Len(w.cur.queue) + 1]
  IN IF Len(w1.cur.queue) > w1.cur.config.batchMax
     THEN flushQueue(w1, FALSE, "absent")
     ELSE w1

\* mutant: every event counts as one byte unit
pushUnitBytes(w, event) ==
  LET w1 == [w EXCEPT !.cur.queue = Append(@, event),
                      !.cur.queueBytes = @ + 1,
                      !.g.append = Len(w.cur.queue) + 1]
  IN IF Len(w1.cur.queue) >= w1.cur.config.batchMax
     THEN flushQueue(w1, FALSE, "absent")
     ELSE w1

\* mutant: the event goes to the head of the queue
pushFront(w, event) ==
  LET w1 == [w EXCEPT !.cur.queue = <<event>> \o @,
                      !.cur.queueBytes = @ + event.bytes,
                      !.g.append = Len(w.cur.queue) + 1]
  IN IF Len(w1.cur.queue) >= w1.cur.config.batchMax
     THEN flushQueue(w1, FALSE, "absent")
     ELSE w1

\* mutant: the threshold is the default one whatever the config says
pushDefaultThreshold(w, event) ==
  LET w1 == [w EXCEPT !.cur.queue = Append(@, event),
                      !.cur.queueBytes = @ + event.bytes,
                      !.g.append = Len(w.cur.queue) + 1]
  IN IF Len(w1.cur.queue) >= DEFAULT_BATCH_MAX
     THEN flushQueue(w1, FALSE, "absent")
     ELSE w1

\* current.queue.push(event); current.queueBytes += bytes; threshold flush
push(w, event) ==
  LET w1 == [w EXCEPT !.cur.queue = Append(@, event),
                      !.cur.queueBytes = @ + event.bytes,
                      !.g.append = Len(w.cur.queue) + 1]
  IN IF Len(w1.cur.queue) >= w1.cur.config.batchMax
     THEN flushQueue(w1, FALSE, "absent")
     ELSE w1

\* mutant: no second size check after the forced flush
enqueueNoRecheck(w, event) ==
  IF w.cur = Null THEN w
  ELSE IF ~w.cur.sampled THEN w
  ELSE IF ~safeJsonSize(w, w.cur.queueBytes + event.bytes)
       THEN push(flushQueue([w EXCEPT !.g.byteFlush = TRUE], FALSE, "absent"),
                 event)
       ELSE push(w, event)

\* mutant: the byte cap evicts the queued events instead of sending them
enqueueEvicts(w, event) ==
  IF w.cur = Null THEN w
  ELSE IF ~w.cur.sampled THEN w
  ELSE IF ~safeJsonSize(w, w.cur.queueBytes + event.bytes)
       THEN LET w1 == [w EXCEPT !.g.byteFlush = TRUE, !.cur.queue = <<>>,
                                !.cur.queueBytes = 0]
            IN IF ~safeJsonSize(w1, w1.cur.queueBytes + event.bytes)
               THEN [w1 EXCEPT !.g.tooBig = TRUE]
               ELSE push(w1, event)
       ELSE push(w, event)

enqueue(w, event) ==
  IF w.cur = Null THEN w
  ELSE IF ~w.cur.sampled THEN w
  ELSE IF ~safeJsonSize(w, w.cur.queueBytes + event.bytes)
       THEN LET w1 == flushQueue([w EXCEPT !.g.byteFlush = TRUE], FALSE, "absent")
            IN IF ~safeJsonSize(w1, w1.cur.queueBytes + event.bytes)
               THEN [w1 EXCEPT !.g.tooBig = TRUE]
               ELSE push(w1, event)
       ELSE push(w, event)

\* config.beforeSend: the hooks of the model; Null is the hook's null, Thrown
\* an exception raised by the hook
beforeSend(hook, ev) ==
  IF hook = "dropDebug"
  THEN IF ev.type = "custom" /\ ev.name \in DebugNames THEN Null ELSE ev
  ELSE IF hook = "throwsDebug"
  THEN IF ev.type = "custom" /\ ev.name \in DebugNames THEN Thrown ELSE ev
  ELSE [ev EXCEPT !.bytes = 1, !.scrubbed = TRUE]

\* mutant: a null from the hook lets the original event through
dispatchKeepsNull(w, ev) ==
  IF w.cur = Null THEN w
  ELSE LET transformed == IF w.cur.config.beforeSend # Undefined
                          THEN beforeSend(w.cur.config.beforeSend[1], ev)
                          ELSE ev
       IN enqueue([w EXCEPT !.g.hook = IF transformed = Null THEN "null"
                                       ELSE "event"],
                  IF transformed = Null THEN ev ELSE transformed)

dispatch(w, ev) ==
  IF w.cur = Null THEN w
  ELSE LET transformed == IF w.cur.config.beforeSend # Undefined
                          THEN beforeSend(w.cur.config.beforeSend[1], ev)
                          ELSE ev
       IN IF transformed = Thrown
          THEN [w EXCEPT !.g.hook = "threw", !.g.escaped = TRUE]
          ELSE IF transformed = Null THEN [w EXCEPT !.g.hook = "null"]
          ELSE enqueue([w EXCEPT !.g.hook =
                          IF w.cur.config.beforeSend # Undefined
                          THEN "event" ELSE "none"], transformed)

\* mutant: no flush timer is started
scheduleFlushNever(w) == w

scheduleFlush(w) ==
  IF w.cur = Null THEN w
  ELSE [w EXCEPT !.flushTimers = (IF w.cur.flushTimer THEN @ - 1 ELSE @) + 1,
                 !.cur.flushTimer = TRUE]

----------------------------------------------------------------------------
(* Public API: event construction *)

\* the event literal of trackPageView / trackEvent / trackError, seq: nextSeq()
\* new Blob([JSON.stringify(event)]).size: the envelope is one unit, data adds
\* its own size
Serialized(data) == 1 + data

BuildEvent(w, type, name, data) ==
  LET w1 == nextSeq(w)
      ev == [uid |-> w.made + 1, type |-> type, name |-> name,
             seq |-> w1.cur.seq, sessionId |-> w.cur.sessionId,
             bytes |-> Serialized(data), scrubbed |-> FALSE]
  IN dispatch([w1 EXCEPT !.made = @ + 1], ev)

\* hasSentInitialPV = true is not reached when dispatch throws
trackPageView(w) ==
  IF w.cur = Null \/ ~w.cur.sampled THEN w
  ELSE LET w1 == BuildEvent(w, "page_view", "", 0)
       IN IF w1.g.escaped THEN w1
          ELSE [w1 EXCEPT !.hasPV = TRUE, !.g.pv = TRUE]

\* mutant: the public API does not look at the sampled flag
trackEventUnsampled(w, name, data) ==
  IF w.cur = Null THEN w
  ELSE BuildEvent(w, "custom", name, data)

trackEvent(w, name, data) ==
  IF w.cur = Null \/ ~w.cur.sampled THEN w
  ELSE BuildEvent(w, "custom", name, data)

trackError(w) ==
  IF w.cur = Null \/ ~w.cur.sampled THEN w
  ELSE BuildEvent(w, "error", "", 0)

----------------------------------------------------------------------------
(* Lifecycle *)

Subscribe(w, kind, withTeardown) ==
  [w EXCEPT !.listeners[kind] = @ + 1,
            !.cur.unsubscribers = IF withTeardown THEN Append(@, kind) ELSE @]

\* beforeunload, visibilitychange (no teardown registered), the activity events
setupLifecycle(w) ==
  Subscribe(Subscribe(Subscribe(w, "hide", FALSE), "activity", TRUE),
            "unload", TRUE)

attachErrorHandlers(w) == Subscribe(w, "error", TRUE)

RECURSIVE Teardown(_, _, _, _)
\* for (const u of current.unsubscribers) try { u(); } catch {}, from position
\* i on; faulty: the positions whose callback throws before it has removed
\* its listener
Teardown(w, us, i, faulty) ==
  IF i > Len(us) THEN w
  ELSE Teardown([w EXCEPT !.g.teardowns = @ + 1,
                          !.listeners[us[i]] = IF i \in faulty THEN @
                                               ELSE @ - 1],
                us, i + 1, faulty)

\* mutant: a throwing teardown ends the loop and shutdown with it
shutdownAborts(w, faulty) ==
  IF w.cur = Null THEN w
  ELSE LET w1 == [w EXCEPT !.flushTimers = IF w.cur.flushTimer THEN @ - 1
                                           ELSE @]
           us == w.cur.unsubscribers
           bad == {i \in 1..Len(us) : i \in faulty}
           stop == IF bad = {} THEN Len(us)
                   ELSE CHOOSE i \in bad : \A j \in bad : i <= j
           w2 == Teardown(w1, SubSeq(us, 1, stop), 1, faulty)
       IN IF bad = {} THEN [w2 EXCEPT !.cur = Null]
          ELSE [w2 EXCEPT !.g.escaped = TRUE]

\* publicAPI.shutdown, the teardowns at the positions in faulty throwing
\* mutant: shutdown sends what is queued before it clears the handle
shutdownFlushes(w, faulty) ==
  IF w.cur = Null THEN w
  ELSE LET w1 == flushQueue(w, FALSE, "absent")
       IN [Teardown([w1 EXCEPT !.flushTimers = IF w.cur.flushTimer THEN @ - 1
                                               ELSE @],
                    w.cur.unsubscribers, 1, faulty) EXCEPT !.cur = Null]

shutdownWith(w, faulty) ==
  IF w.cur = Null THEN w
  ELSE [Teardown([w EXCEPT !.flushTimers = IF w.cur.flushTimer THEN @ - 1
                                           ELSE @],
                 w.cur.unsubscribers, 1, faulty)
          EXCEPT !.cur = Null]

shutdown(w) == shutdownWith(w, {})

getSessionInfo(w) ==
  IF w.cur = Null THEN Null
  ELSE [sessionId |-> w.cur.sessionId, deviceId |-> w.cur.deviceId,
        sampled |-> w.cur.sampled]

----------------------------------------------------------------------------
(* Init *)

\* startRum past its first line
buildPipeline(w, config, st, r1, r2) ==
       LET cfg == applyDefaults(config)
           d == getOrCreateDeviceId(w, st)
           s == loadOrCreateSession(d.w, cfg.sampleRate, cfg.sessionTtlMs,
                                    st, r1, r2)
           w1 == [s.w EXCEPT !.starts = @ + 1,
                             !.cur = [config |-> cfg, deviceId |-> d.v,
                                      sessionId |-> s.v.id,
                                      sampled |-> s.v.sampled, seq |-> 0,
                                      queue |-> <<>>, queueBytes |-> 0,
                                      flushTimer |-> FALSE,
                                      unsubscribers |-> <<>>]]
           w2 == IF ~w1.cur.sampled THEN w1
                 ELSE IF cfg.captureErrors
                      THEN attachErrorHandlers(setupLifecycle(w1))
                      ELSE setupLifecycle(w1)
           w3 == scheduleFlush(w2)
       IN IF w3.cur.sampled /\ cfg.autoTrackInitialView
          THEN IF routeManifestReady \/ cfg.getNormalizedPath # Undefined
               THEN trackPageView(w3)
               ELSE [w3 EXCEPT !.races[w1.starts] =
                                 [poll |-> TRUE, fallback |-> TRUE]]
          ELSE w3

\* mutant: no idempotence guard
startRumAlways(w, config, st, r1, r2) == buildPipeline(w, config, st, r1, r2)

startRum(w, config, st, r1, r2) ==
  IF w.cur # Null THEN w ELSE buildPipeline(w, config, st, r1, r2)

\* the setInterval callback of the readiness poll of startup k
pollTick(w, k) ==
  IF routeManifestReady /\ ~w.hasPV
  THEN trackPageView([w EXCEPT !.races[k].poll = FALSE])
  ELSE w

\* the setTimeout callback of the fallback of startup k
fallback(w, k) ==
  LET w1 == [w EXCEPT !.races[k].fallback = FALSE]
  IN IF ~w1.hasPV
     THEN trackPageView([w1 EXCEPT !.races[k].poll = FALSE])
     ELSE w1

RECURSIVE hideSignal(_, _, _)
\* visibilitychange to "hidden": every registered listener runs flushQueue(true)
hideSignal(w, n, beacon) ==
  IF n = 0 THEN w ELSE hideSignal(flushQueue(w, TRUE, beacon), n - 1, beacon)

RECURSIVE unloadSignal(_, _, _, _)
\* beforeunload: every registered onUnload runs
unloadSignal(w, n, beacon, st) ==
  IF n = 0 THEN w
  ELSE unloadSignal(flushQueue(refreshSessionActivity(w, st), TRUE, beacon),
                    n - 1, beacon, st)

\* window "error" / "unhandledrejection": onError / onRejection
errorSignal(w, n) == IF n = 0 THEN w ELSE trackError(w)

----------------------------------------------------------------------------
(* Path Normalization setters *)

setRouteManifest(w, routes) ==
  IF w.cur # Null THEN [w EXCEPT !.cur.config.routeManifest = Some(routes)]
  ELSE w

setPathNormalizer(w, fn) ==
  IF w.cur # Null THEN [w EXCEPT !.cur.config.getNormalizedPath = Some(fn)]
  ELSE w

----------------------------------------------------------------------------
(* The state machine *)

NoRaces == [k \in 1..MaxLoads |-> [poll |-> FALSE, fallback |-> FALSE]]

\* localStorage at page load: empty, unparseable, or left by an earlier visit
\* whose session was drawn as `sampled`
FreshStorage(session) ==
  /\ lsDevice = Undefined /\ lsSession = session
  /\ uuids = 0 /\ drawn = <<>>

EarlierVisit(sampled) ==
  /\ lsDevice = Some(1)
  /\ lsSession = [id |-> 2, sampled |-> sampled, last |-> 0]
  /\ uuids = 2 /\ drawn = (2 :> sampled)

InitPage ==
  /\ current = Null
  /\ clock = 0
  /\ pendingRouteManifest = Undefined
  /\ pendingPathNormalizer = Undefined
  /\ lastNormalizer = Undefined
  /\ expired = {}
  /\ tabs = [t \in 1..MaxTabs |-> [pc |-> "idle", held |-> None, raw |-> None]]
  /\ hasSentInitialPV = FALSE
  /\ routeManifestReady = FALSE
  /\ flushTimers = 0
  /\ races = NoRaces
  /\ listeners = [hide |-> 0, unload |-> 0, activity |-> 0, error |-> 0]
  /\ net = <<>>
  /\ made = 0
  /\ starts = 0
  /\ last = G0
  /\ justStarted = FALSE

Init ==
  /\ InitPage
  /\ appConfig \in QueueConfigs
  /\ budget = MaxEvents
  /\ FreshStorage(None)

\* the world w becomes the state; last records what the handler did
Commit(op, w) ==
  /\ w.made <= budget
  /\ current' = w.cur
  /\ lsDevice' = w.lsDevice
  /\ lsSession' = w.lsSession
  /\ hasSentInitialPV' = w.hasPV
  /\ flushTimers' = w.flushTimers
  /\ races' = w.races
  /\ listeners' = w.listeners
  /\ net' = w.net
  /\ made' = w.made
  /\ uuids' = w.uuids
  /\ starts' = w.starts
  /\ drawn' = w.drawn
  /\ last' = [w.g EXCEPT !.op = op]

Same == UNCHANGED <<clock, pendingRouteManifest, pendingPathNormalizer,
                    routeManifestReady, appConfig, budget, lastNormalizer,
                    expired, tabs>>

Later == justStarted' = FALSE

\* startRum(config) while no pipeline is started
StartWith(config, st, r1, r2, maxStarts) ==
  /\ current = Null
  /\ starts < maxStarts
  /\ Commit("startRum", startRum(World, config, st, r1, r2))
  /\ Same
  /\ justStarted' = TRUE

StartRum(configs, modes, maxStarts) ==
  \E config \in configs, st \in modes, r1 \in Randoms :
    \E r2 \in (IF st = "ok" THEN {r1} ELSE Randoms) :
      StartWith(config, st, r1, r2, maxStarts)

\* startRum(config) while a pipeline is started
StartAgain ==
  \E config \in AgainConfigs :
    /\ current # Null
    /\ Commit("startAgain", startRum(World, config, "ok", 0, 0))
    /\ Same /\ Later

Shutdown ==
  /\ Commit("", shutdown(World))
  /\ Same /\ Later

\* shutdown() while the teardowns at the positions in faulty throw
ShutdownFaulty(faulty) ==
  /\ Commit("shutdown", shutdownWith(World, faulty))
  /\ Same /\ Later

ShutdownAny ==
  \E faulty \in SUBSET (1..(IF current = Null THEN 0
                            ELSE Len(current.unsubscribers))) :
    ShutdownFaulty(faulty)

TrackPageView ==
  /\ Commit("track", trackPageView(World))
  /\ Same /\ Later

TrackEvent ==
  \E c \in TrackCalls :
    /\ Commit("track", trackEvent(World, c.name, c.data))
    /\ Same /\ Later

\* trackEvent("a"); trackEvent("b") in one synchronous block
TrackAB ==
  /\ Commit("trackAB", trackEvent(trackEvent(World, "a", 0), "b", 0))
  /\ Same /\ Later

TrackError ==
  /\ Commit("track", trackError(World))
  /\ Same /\ Later

ErrorEvent ==
  /\ listeners.error > 0
  /\ Commit("track", errorSignal(World, listeners.error))
  /\ Same /\ Later

Flush ==
  /\ Commit("flush", flushQueue(World, FALSE, "absent"))
  /\ Same /\ Later

TimerTick ==
  /\ flushTimers > 0
  /\ Commit("flush", flushQueue(World, FALSE, "absent"))
  /\ Same /\ Later

HideWith(beacon) ==
  /\ Commit("signal", hideSignal(World, listeners.hide, beacon))
  /\ Same /\ Later

Hide == \E beacon \in BeaconModes : HideWith(beacon)

UnloadWith(beacon, st) ==
  /\ Commit("signal", unloadSignal(World, listeners.unload, beacon, st))
  /\ Same /\ Later

Unload(modes) == \E beacon \in BeaconModes, st \in modes : UnloadWith(beacon, st)

Activity(modes) ==
  \E st \in modes :
    /\ listeners.activity > 0
    /\ Commit("", refreshSessionActivity(World, st))
    /\ Same /\ Later

SetRouteManifest ==
  \E routes \in Manifests :
    /\ Commit("", setRouteManifest(World, routes))
    /\ pendingRouteManifest' =
         IF current # Null THEN pendingRouteManifest ELSE Some(routes)
    /\ routeManifestReady' = TRUE
    /\ UNCHANGED <<clock, pendingPathNormalizer, appConfig, budget,
                   lastNormalizer, expired, tabs>>
    /\ Later

SetPathNormalizer(fns) ==
  \E fn \in fns :
    /\ Commit("", setPathNormalizer(World, fn))
    /\ pendingPathNormalizer' =
         IF current # Null THEN pendingPathNormalizer ELSE Some(fn)
    /\ lastNormalizer' = Some(fn)
    /\ UNCHANGED <<clock, pendingRouteManifest, routeManifestReady, appConfig,
                   budget, expired, tabs>>
    /\ Later

PollTick ==
  \E k \in 1..MaxLoads :
    /\ races[k].poll
    /\ Commit("track", pollTick(World, k))
    /\ Same /\ Later

\* timers of one delay fire in the order they were set
Fallback ==
  \E k \in 1..MaxLoads :
    /\ races[k].fallback
    /\ \A j \in 1..(k - 1) : ~races[j].fallback
    /\ Commit("track", fallback(World, k))
    /\ Same /\ Later

\* time passes
Tick ==
  /\ clock < MaxTime
  /\ clock' = clock + 1
  /\ last' = G0
  /\ UNCHANGED <<current, lsDevice, lsSession, pendingRouteManifest,
                 pendingPathNormalizer, hasSentInitialPV, routeManifestReady,
                 flushTimers, races, listeners, net, made, uuids, starts,
                 drawn, appConfig, budget, lastNormalizer, tabs>>
  /\ expired' = expired \cup
       (IF IsRecord(lsSession)
           /\ clock' - lsSession.last > applyDefaults(appConfig).sessionTtlMs
        THEN {lsSession.id} ELSE {})
  /\ Later

\* The queue and the transports: the host starts the pipeline with appConfig,
\* storage works and the session does not expire
Next ==
  \/ StartRum({appConfig}, {"ok"}, MaxStarts) \/ StartAgain \/ Shutdown
  \/ TrackPageView \/ TrackEvent \/ TrackError \/ ErrorEvent
  \/ Flush \/ TimerTick \/ Hide \/ Unload({"ok"}) \/ Activity({"ok"})

Spec == Init /\ [][Next]_vars

\* Sessions over time: any storage content at page load, storage that may
\* fail during any call, a config chosen by each startRum, the clock moving
InitSession ==
  /\ InitPage
  /\ appConfig \in AgainConfigs
  /\ budget = MaxEvents
  /\ \/ FreshStorage(None)
     \/ FreshStorage(Corrupt)
     \/ FreshStorage(NonObject)
     \/ \E sampled \in BOOLEAN : EarlierVisit(sampled)

NextSession ==
  \/ StartRum(SessionConfigs, StorageModes, MaxLoads)
  \/ Shutdown
  \/ Activity(StorageModes)
  \/ Tick

SpecSession == InitSession /\ [][NextSession]_vars

\* Sampling: the draw of each new session decides; storage that throws gives
\* every startRum its own session, so a sampled pipeline can be followed by an
\* unsampled one on the same page, with the timers and listeners the first left
InitSampling ==
  /\ InitPage
  /\ appConfig \in SamplingConfigs
  /\ budget = SamplingEvents
  /\ FreshStorage(None)

NextSampling ==
  \/ StartRum({appConfig}, {"ok", "throws"}, MaxStarts)
  \/ Shutdown
  \/ TrackPageView \/ TrackEvent \/ TrackError \/ ErrorEvent
  \/ Flush \/ TimerTick \/ Hide \/ Unload({"ok"}) \/ Activity({"ok"})
  \/ SetRouteManifest \/ PollTick \/ Fallback

SpecSampling == InitSampling /\ [][NextSampling]_vars

\* The initial page view: the host never calls trackPageView itself, so every
\* page_view event comes from startRum, its poll or its fallback timer
InitRace ==
  /\ InitPage
  /\ appConfig \in RaceConfigs
  /\ budget = MaxEvents
  /\ FreshStorage(None)

NextRace ==
  \/ StartRum({appConfig}, {"ok"}, MaxStarts)
  \/ Shutdown
  \/ SetRouteManifest
  \/ SetPathNormalizer({"fnA"})
  \/ PollTick
  \/ Fallback

SpecRace == InitRace /\ [][NextRace]_vars

\* A beforeSend hook that throws on some events
InitHook ==
  /\ InitPage
  /\ appConfig \in HookFaultConfigs
  /\ budget = MaxEvents
  /\ FreshStorage(None)

NextHook ==
  \/ StartRum({appConfig}, {"ok"}, MaxStarts)
  \/ Shutdown
  \/ TrackPageView \/ TrackEvent \/ TrackError
  \/ Flush

SpecHook == InitHook /\ [][NextHook]_vars

\* Shutdown and restart, teardown callbacks that may throw
InitShutdown ==
  /\ InitPage
  /\ appConfig \in ShutdownConfigs
  /\ budget = SamplingEvents
  /\ FreshStorage(None)

NextShutdown ==
  \/ StartRum({appConfig}, {"ok"}, MaxStarts)
  \/ ShutdownAny
  \/ TrackEvent
  \/ Flush \/ TimerTick

SpecShutdown == InitShutdown /\ [][NextShutdown]_vars

\* The late-binding setters before, between and during pipelines
InitSetters ==
  /\ InitPage
  /\ appConfig \in SetterConfigs
  /\ budget = MaxEvents
  /\ FreshStorage(None)

NextSetters ==
  \/ StartRum({appConfig}, {"ok"}, MaxLoads)
  \/ Shutdown
  \/ SetRouteManifest
  \/ SetPathNormalizer(Normalizers)

SpecSetters == InitSetters /\ [][NextSetters]_vars

\* Page lifecycle over time: the hide and unload signals, user activity and
\* the flush timer of a sampled pipeline while the clock moves; storage that
\* throws at startup leaves no session record behind
InitLifecycle ==
  /\ InitPage
  /\ appConfig \in ShutdownConfigs
  /\ budget = SamplingEvents
  /\ FreshStorage(None)

NextLifecycle ==
  \/ StartRum({appConfig}, {"ok", "throws"}, MaxStarts)
  \/ Shutdown
  \/ TrackEvent
  \/ Hide
  \/ Unload({"ok"})
  \/ Activity({"ok"})
  \/ TimerTick
  \/ Tick

SpecLifecycle == InitLifecycle /\ [][NextLifecycle]_vars

\* A short TTL: sessions that grow older than it while a pipeline runs and
\* the user comes back
InitExpiry ==
  /\ InitPage
  /\ appConfig \in ExpiryConfigs
  /\ budget = SamplingEvents
  /\ FreshStorage(None)

NextExpiry ==
  \/ StartRum({appConfig}, {"ok"}, MaxLoads)
  \/ Shutdown
  \/ Activity({"ok"})
  \/ Unload({"ok"})
  \/ TrackEvent
  \/ Tick

SpecExpiry == InitExpiry /\ [][NextExpiry]_vars

\* Tabs sharing the storage.  Each tab runs the session part of startRum and
\* of the activity listeners; another tab can run between the getItem and
\* the setItem of one call.  held is the record loadOrCreateSession is about
\* to write and, once the tab runs, the session it uses; raw is the record
\* refreshSessionActivity has read.
TabFrame ==
  UNCHANGED <<current, lsDevice, clock, pendingRouteManifest,
              pendingPathNormalizer, hasSentInitialPV, routeManifestReady,
              flushTimers, races, listeners, net, made, appConfig, budget,
              lastNormalizer, expired>>
  /\ last' = G0 /\ Later

\* loadOrCreateSession up to its setItem: getItem, now(), the TTL test, and
\* either the renewed record or uuid() and Math.random()
TabLoadRead(t) ==
  \E r \in Randoms :
    LET cfg == applyDefaults(appConfig)
        s == loadOrCreateSession(World, cfg.sampleRate, cfg.sessionTtlMs,
                                 "ok", r, r)
    IN /\ tabs[t].pc = "idle"
       /\ starts < MaxLoads
       /\ tabs' = [tabs EXCEPT ![t] = [pc |-> "loading", held |-> s.v, raw |-> None]]
       /\ uuids' = s.w.uuids /\ drawn' = s.w.drawn
       /\ starts' = starts + 1
       /\ UNCHANGED lsSession
       /\ TabFrame

\* the setItem of loadOrCreateSession and its return
TabLoadWrite(t) ==
  /\ tabs[t].pc = "loading"
  /\ lsSession' = tabs[t].held
  /\ tabs' = [tabs EXCEPT ![t].pc = "running"]
  /\ UNCHANGED <<uuids, drawn, starts>>
  /\ TabFrame

\* refreshSessionActivity up to JSON.parse: the record as read
TabRefreshRead(t) ==
  /\ tabs[t].pc = "running"
  /\ IsRecord(lsSession)
  /\ tabs' = [tabs EXCEPT ![t].pc = "refreshing", ![t].raw = lsSession]
  /\ UNCHANGED <<lsSession, uuids, drawn, starts>>
  /\ TabFrame

\* v.last = now() and the setItem of refreshSessionActivity, v being the
\* record read earlier
TabRefreshWrite(t) ==
  /\ tabs[t].pc = "refreshing"
  /\ lsSession' = refreshSessionActivity(
                     [World EXCEPT !.lsSession = tabs[t].raw], "ok").lsSession
  /\ tabs' = [tabs EXCEPT ![t].pc = "running", ![t].raw = None]
  /\ UNCHANGED <<uuids, drawn, starts>>
  /\ TabFrame

\* shutdown() of the tab's pipeline: the persisted record stays
TabShutdown(t) ==
  /\ tabs[t].pc = "running"
  /\ tabs' = [tabs EXCEPT ![t] = [pc |-> "idle", held |-> None, raw |-> None]]
  /\ UNCHANGED <<lsSession, uuids, drawn, starts>>
  /\ TabFrame

InitTabs ==
  /\ InitPage
  /\ appConfig \in SamplingConfigs
  /\ budget = SamplingEvents
  /\ FreshStorage(None)

NextTabs ==
  \/ \E t \in 1..MaxTabs :
       \/ TabLoadRead(t) \/ TabLoadWrite(t)
       \/ TabRefreshRead(t) \/ TabRefreshWrite(t)
       \/ TabShutdown(t)
  \/ Tick

SpecTabs == InitTabs /\ [][NextTabs]_vars

\* The flush timer keeps ticking: setInterval calls its callback again and
\* again for as long as the timer is not cleared
InitLive ==
  /\ InitPage
  /\ appConfig \in LiveConfigs
  /\ budget = MaxEvents
  /\ FreshStorage(None)

NextLive ==
  \/ StartRum({appConfig}, {"ok"}, MaxStarts)
  \/ Shutdown
  \/ TrackEvent
  \/ Flush
  \/ TimerTick
  \/ Hide

SpecLive == InitLive /\ [][NextLive]_vars /\ WF_vars(TimerTick)

\* The two-event example: startRum({sampleRate: 1.0, batchMax: 2}) on a page
\* whose storage is empty or holds the session of an earlier visit, the route
\* manifest or a path normalizer set before or after startRum
InitExample ==
  /\ InitPage
  /\ appConfig \in ExampleConfigs
  /\ budget = ExampleEvents
  /\ \/ FreshStorage(None)
     \/ \E sampled \in BOOLEAN : EarlierVisit(sampled)

NextExample ==
  \/ StartRum({appConfig}, {"ok"}, MaxStarts)
  \/ SetRouteManifest
  \/ SetPathNormalizer({"fnA"})
  \/ TrackAB
  \/ PollTick
  \/ Fallback
  \/ Flush
  \/ Shutdown

SpecExample == InitExample /\ [][NextExample]_vars

----------------------------------------------------------------------------
(* Properties *)

RECURSIVE Events(_)
\* the events of a sequence of transport calls, in order
Events(calls) ==
  IF calls = <<>> THEN <<>> ELSE Head(calls).events \o Events(Tail(calls))

\* the transport calls that took their payload, for one session id
Delivered(sid) == SelectSeq(net, LAMBDA c : ~c.threw /\ c.sessionId = sid)

SessionIds == {net[i].sessionId : i \in 1..Len(net)}

\* the calls one handler added to net
NewCalls == SubSeq(net', Len(net) + 1, Len(net'))

Started == current # Null

\* C1: the seq values of the events sent under one session id are consecutive
\* integers, none skipped and none repeated (the claim as stated)
SeqGapless ==
  \A sid \in SessionIds :
    LET es == Events(Delivered(sid))
    IN \A i \in 1..(Len(es) - 1) : es[i + 1].seq = es[i].seq + 1

\* C3: whenever a handler has returned, queueBytes is at most maxQueueBytes
ByteCapHolds ==
  Started => current.queueBytes <= current.config.maxQueueBytes

\* C3 witness: the byte cap forced a flush and the event was then appended;
\* the queue is exactly full
ByteCapForcedFlush ==
  /\ Started /\ last.byteFlush /\ last.flushes = 1 /\ last.append = 1
  /\ current.queueBytes = current.config.maxQueueBytes

\* C4: the push that brings the queue to batchMax events is followed, in the
\* same enqueue call, by exactly one flush (one payload, one transport call),
\* and the queue and the byte counter are empty afterwards
ThresholdFlushOnce ==
  (Started /\ last.append = current.config.batchMax)
    => /\ last.flushes = 1 /\ last.calls = 1
       /\ current.queue = <<>> /\ current.queueBytes = 0

\* C4 witness: the second event of a batch of two was pushed
ThresholdReached ==
  Started /\ current.config.batchMax = 2 /\ last.append = 2 /\ Len(net) = 1

\* a flush from the public API, the timer, the hide or the unload signal
FlushStep == Flush \/ TimerTick \/ Hide \/ Unload({"ok"})

\* C5: a flush with an empty queue, or with no pipeline, builds no payload,
\* makes no transport call and leaves the pipeline as it was (the unload
\* handler's own refreshSessionActivity precedes its flush and touches only
\* the persisted session record)
EmptyFlushNoop ==
  [][(FlushStep /\ (current = Null \/ current.queue = <<>>))
       => /\ net' = net /\ current' = current /\ last'.flushes = 0
          /\ UNCHANGED <<made, hasSentInitialPV, flushTimers, listeners,
                         races, starts, uuids, lsDevice>>]_vars

\* C5 witness: a flush found the queue of a pipeline that has built events
\* empty
EmptyFlushed ==
  /\ Started /\ current.seq > 0 /\ last.op \in {"flush", "signal"}
  /\ last.flushes = 0 /\ net # <<>>

\* the event most recently appended to the queue
Landed(cur, calls) ==
  IF cur.queue # <<>> THEN cur.queue[Len(cur.queue)]
  ELSE LET es == calls[Len(calls)].events IN es[Len(es)]

\* C8: when beforeSend returns null the queue, the byte counter and the
\* transports are untouched; when it returns an event, the event appended is
\* the one it returned
HookDecides ==
  [][/\ (last'.op = "track" /\ last'.hook = "null")
          => /\ current'.queue = current.queue
             /\ current'.queueBytes = current.queueBytes
             /\ net' = net /\ last'.flushes = 0
      /\ \A c \in TrackCalls :
           (/\ Commit("track", trackEvent(World, c.name, c.data))
            /\ last'.hook = "event" /\ last'.append > 0)
             => Landed(current', net') =
                  beforeSend(current.config.beforeSend[1],
                             [uid |-> made + 1, type |-> "custom",
                              name |-> c.name, seq |-> current.seq + 1,
                              sessionId |-> current.sessionId,
                              bytes |-> Serialized(c.data),
                              scrubbed |-> FALSE])]_vars

\* C8 witness: the hook dropped an event while another one was queued
HookDropped ==
  Started /\ last.op = "track" /\ last.hook = "null" /\ current.queue # <<>>

\* C9: a hide or unload signal with n >= 1 queued events and sendBeacon
\* available makes exactly one beacon call, with exactly the queued events in
\* order, and leaves the queue empty, whatever the beacon call does; a second
\* signal right after makes no call
BeaconOnce ==
  [][/\ \A b \in BeaconModes \ {"absent"} :
          (/\ HideWith(b) \/ UnloadWith(b, "ok")
           /\ Started /\ current.queue # <<>>)
            => (/\ SelectSeq(NewCalls, LAMBDA c : c.via = "beacon")
                    = <<[via |-> "beacon", threw |-> (b = "throws"),
                         sessionId |-> current.sessionId,
                         deviceId |-> current.deviceId, run |-> starts,
                         events |-> current.queue]>>
               /\ current'.queue = <<>>)
      /\ (((Hide \/ Unload({"ok"})) /\ last.op = "signal") => net' = net)]_vars

\* C9 witness: the signal found two events queued and sendBeacon threw
BeaconThrew ==
  /\ last.op = "signal" /\ last.beacon = "throws" /\ last.flushes = 1
  /\ Len(net[Len(net) - 1].events) = 2

\* C10: startRum while a pipeline is started changes nothing: no second
\* timer, no session load or draw, no reset, the passed config ignored
StartIsIdempotent ==
  [][StartAgain
       => UNCHANGED <<current, lsDevice, lsSession, flushTimers, races,
                      listeners, net, made, uuids, starts, drawn,
                      hasSentInitialPV, pendingRouteManifest,
                      pendingPathNormalizer, routeManifestReady>>]_vars

\* C10 witness: the second startRum met a pipeline with a queued event
StartedAgain ==
  Started /\ last.op = "startAgain" /\ current.queue # <<>> /\ flushTimers = 1

\* C2: the sampled flag of a session id, as returned to the pipeline and as
\* persisted, is the value drawn when that id was created, through every
\* renewal and activity refresh and whatever sampleRate later calls pass
SampledDrawnOnce ==
  /\ IsRecord(lsSession)
       => /\ lsSession.id \in DOMAIN drawn
          /\ lsSession.sampled = drawn[lsSession.id]
  /\ Started
       => /\ current.sessionId \in DOMAIN drawn
          /\ current.sampled = drawn[current.sessionId]

\* C2 witness: a renewal under sampleRate 1.0 kept the session unsampled
RenewedUnsampled ==
  /\ Started /\ last.renewed /\ current.config.sampleRate = 100
  /\ ~current.sampled /\ ~lsSession.sampled /\ clock > 0

\* C7: with storage working, startRum's loadOrCreateSession returns the
\* persisted id, with last set to now and re-persisted, exactly when a
\* parseable record exists with now - last < ttl; otherwise it returns a
\* newly generated id with a new draw, never the persisted one, and persists
\* the new record
SessionByTtl ==
  [][\A config \in SessionConfigs, r \in Randoms :
       StartWith(config, "ok", r, r, MaxLoads)
         => LET ttl == applyDefaults(config).sessionTtlMs
                rate == applyDefaults(config).sampleRate
            IN IF IsRecord(lsSession) /\ clock - lsSession.last < ttl
               THEN /\ current'.sessionId = lsSession.id
                    /\ current'.sampled = lsSession.sampled
                    /\ lsSession' = [lsSession EXCEPT !.last = clock]
               ELSE /\ current'.sessionId > uuids
                    /\ IsRecord(lsSession)
                         => current'.sessionId # lsSession.id
                    /\ current'.sampled = Bernoulli(r, rate)
                    /\ lsSession' = [id |-> current'.sessionId,
                                     sampled |-> current'.sampled,
                                     last |-> clock]]_vars

\* C7 witness: the record of the earlier visit was exactly ttl old at
\* startRum and a new session replaced it
ExpiredAtTtl ==
  /\ Started /\ last.op = "startRum" /\ starts = 1 /\ clock = 1
  /\ current.config.sessionTtlMs = 1 /\ 2 \in DOMAIN drawn
  /\ current.sessionId = 3 /\ lsSession.id = 3

\* the names of the events of a transport call
Names(call) == [k \in 1..Len(call.events) |-> call.events[k].name]

\* trackEvent("a"); trackEvent("b") sent a payload holding exactly a, b and
\* left the queue empty
SentAB ==
  /\ \E i \in 1..Len(NewCalls) : Names(NewCalls[i]) = <<"a", "b">>
  /\ current'.queue = <<>>

\* C6 as stated: right after startRum with sampleRate 1.0 and batchMax 2,
\* whatever is persisted and whether or not the manifest or a normalizer is
\* ready, trackEvent("a"); trackEvent("b") sends a payload of exactly
\* ["a","b"] and leaves the queue empty
ExampleAsStated ==
  [][(justStarted /\ TrackAB) => SentAB]_vars

\* C6: the same, when the session in use is sampled and startRum did not emit
\* the initial page view (autoTrackInitialView off, or neither the route
\* manifest nor a path normalizer ready at startup)
ExampleWhenSampledAndNoInitialView ==
  [][(/\ justStarted /\ TrackAB
      /\ current.sampled
      /\ ~(/\ current.config.autoTrackInitialView
           /\ \/ routeManifestReady
              \/ current.config.getNormalizedPath # Undefined))
       => SentAB]_vars

\* C6 witness: the pipeline renewed the sampled session of the earlier visit
\* and the two events were its only ones, sent in one payload
ExampleSent ==
  /\ Started /\ last.op = "trackAB" /\ last.append = 2 /\ last.flushes = 1
  /\ starts = 1 /\ made = 2 /\ current.seq = 2 /\ current.sessionId = 2
  /\ Len(net) = 1 /\ current.queue = <<>> /\ ~hasSentInitialPV

\* C11: while the started pipeline is not sampled, no handler (public API,
\* timer, poll, fallback, lifecycle signal, left-over listener) builds an
\* event, consumes a seq, calls beforeSend, appends to the queue or makes a
\* transport call; and a startRum that ends unsampled installs no listener,
\* no collector and no initial-view race
UnsampledIsSilent ==
  [][/\ ((Started /\ ~current.sampled)
           => (/\ made' = made /\ net' = net
               /\ last'.hook = "none" /\ last'.append = 0
               /\ last'.flushes = 0
               /\ (current' # Null
                     => (current'.seq = 0 /\ current'.queue = <<>>))))
      /\ ((current = Null /\ current' # Null /\ ~current'.sampled)
           => (/\ listeners' = listeners /\ races' = races
               /\ current'.unsubscribers = <<>>))]_vars

\* C11 witness: an unsampled pipeline follows a sampled one that built events;
\* the hide listener the first one left has just run
UnsampledAfterSampled ==
  /\ Started /\ ~current.sampled /\ starts = 2 /\ made > 0
  /\ listeners.hide = 1 /\ last.op = "signal"

\* the page views among the events handed to a transport
PageViews(calls) == SelectSeq(Events(calls), LAMBDA e : e.type = "page_view")

\* C12 (as stated, counted per page): the automatic initial page view is
\* emitted at most once, however many times startRum enters the race
InitialViewOncePerPage == Len(PageViews(net)) <= 1

\* C12 (as stated, counted per pipeline): once the fallback timer of the
\* running pipeline's startup is no longer pending, that pipeline has emitted
\* exactly one initial page view
InitialViewOncePerPipeline ==
  (Started /\ ~races[starts].fallback)
    => Len(PageViews(SelectSeq(net, LAMBDA c : c.run = starts))) = 1

\* C13 (as stated): an exception raised by beforeSend never leaves the
\* handler for the caller of trackPageView / trackEvent / trackError
HookFaultIsolated == ~last.escaped

\* C14 (as stated): a handler makes at most one transport call per payload
\* it drains, also when sendBeacon throws: no fetch follows the beacon call
OneTransportPerFlush == last.calls <= last.flushes

\* the teardowns a pipeline can have registered
TeardownSets == SUBSET (1..3)

\* C15: shutdown() cancels the flush timer, invokes every registered teardown
\* exactly once whichever of them throw, lets no exception out and clears the
\* handle (getSessionInfo() is null); shutdown() with no pipeline changes
\* nothing; and in every state there is one flush timer when a pipeline is
\* started and none otherwise
ShutdownClears ==
  [][/\ \A faulty \in TeardownSets :
          ((ShutdownFaulty(faulty) /\ Started)
            => (/\ getSessionInfo([cur |-> current']) = Null
                /\ flushTimers' = 0
                /\ last'.teardowns = Len(current.unsubscribers)
                /\ ~last'.escaped
                /\ \A k \in DOMAIN listeners :
                     listeners'[k] = listeners[k] - Cardinality(
                       {i \in 1..Len(current.unsubscribers) :
                          current.unsubscribers[i] = k /\ i \notin faulty})))
      /\ ((ShutdownFaulty({}) /\ ~Started)
           => UNCHANGED <<current, lsDevice, lsSession, flushTimers, races,
                          listeners, net, made, uuids, starts, drawn,
                          hasSentInitialPV>>)
      /\ flushTimers' = (IF current' # Null THEN 1 ELSE 0)]_vars

\* C15 witness: the second pipeline was shut down, all three teardowns were
\* invoked although one of them threw and left its listener
ShutdownWithFault ==
  /\ ~Started /\ last.op = "shutdown" /\ last.teardowns = 3 /\ starts = 2
  /\ listeners.activity = 1 /\ listeners.unload = 0 /\ listeners.error = 0
  /\ flushTimers = 0

\* C16: a failure to read, parse or write the persisted device id or session
\* counts as no value found: startRum returns a started pipeline whose id is
\* newly generated wherever the stored one could not be used, a storage that
\* throws is left as it was, and refreshSessionActivity changes no record it
\* could not read, parse or write
StorageFaultsAreAbsence ==
  [][\A st \in StorageModes :
       /\ (StartRum(SessionConfigs, {st}, MaxLoads)
             => (/\ current' # Null
                 /\ ((st # "ok" \/ ~IsRecord(lsSession))
                       => (/\ current'.sessionId > uuids
                           /\ current'.sessionId <= uuids'))
                 /\ ((st = "throws" \/ lsDevice = Undefined)
                       => (/\ current'.deviceId > uuids
                           /\ current'.deviceId <= uuids'))
                 /\ (st # "ok" => (lsSession' = lsSession /\ lsDevice' = lsDevice))))
       /\ ((Activity({st}) /\ (st # "ok" \/ ~IsRecord(lsSession)))
             => (lsSession' = lsSession /\ lsDevice' = lsDevice))]_vars

\* C16 witness: a pipeline has just started over a session text that does not
\* parse and a storage that throws, with ids of its own
StartedOverBrokenStorage ==
  /\ Started /\ justStarted /\ lsSession = Corrupt /\ lsDevice = Undefined
  /\ current.sessionId = uuids /\ current.deviceId < current.sessionId

\* C17 as stated: whenever a pipeline runs, the normalizer it uses is the one
\* given to the latest setPathNormalizer call (the startRum configs that set a
\* normalizer of their own left aside)
LatestNormalizerUsed ==
  (Started /\ lastNormalizer # Undefined /\ appConfig.getNormalizedPath = Undefined)
    => computeNormalizedPath([cur |-> current]) = lastNormalizer[1]

\* C17: a setter called while a pipeline is started changes that pipeline's
\* config and not the cached value; called while none is started it changes
\* the cached value only; startRum takes each of the two fields from its
\* config and, where the config leaves it unset, from the cached value, which
\* is the one of the latest setter call made while no pipeline was started
SettersLiveOrCached ==
  [][/\ ((SetPathNormalizer(Normalizers) /\ Started)
           => (/\ current'.config.getNormalizedPath = lastNormalizer'
               /\ computeNormalizedPath([cur |-> current']) = lastNormalizer'[1]
               /\ pendingPathNormalizer' = pendingPathNormalizer))
      /\ ((SetPathNormalizer(Normalizers) /\ ~Started)
           => (pendingPathNormalizer' = lastNormalizer' /\ current' = Null))
      /\ ((SetRouteManifest /\ Started)
           => (/\ current'.config.routeManifest \in {Some(m) : m \in Manifests}
               /\ pendingRouteManifest' = pendingRouteManifest))
      /\ ((SetRouteManifest /\ ~Started)
           => (/\ pendingRouteManifest' \in {Some(m) : m \in Manifests}
               /\ current' = Null))
      /\ ((~Started /\ current' # Null)
           => (/\ current'.config.getNormalizedPath =
                    (IF appConfig.getNormalizedPath # Undefined
                     THEN appConfig.getNormalizedPath
                     ELSE pendingPathNormalizer)
               /\ current'.config.routeManifest =
                    (IF appConfig.routeManifest # Undefined
                     THEN appConfig.routeManifest
                     ELSE pendingRouteManifest)))]_vars

\* C17 witness: the second pipeline runs with the normalizer cached before the
\* first one, although another was set while the first was running
StaleNormalizerUsed ==
  /\ Started /\ starts = 2 /\ appConfig.getNormalizedPath = Undefined
  /\ pendingPathNormalizer = Some("fnA") /\ lastNormalizer = Some("fnB")
  /\ computeNormalizedPath([cur |-> current]) = "fnA"

\* C18: every payload handed to a transport carries at most batchMax events,
\* and whenever a handler has returned the queue holds fewer than batchMax
\* events
BatchMaxBounds ==
  /\ \A i \in 1..Len(net) :
       Len(net[i].events) <= applyDefaults(appConfig).batchMax
  /\ Started => Len(current.queue) < current.config.batchMax

\* C18 witness: with batchMax 1 each of two events left in a payload of its
\* own, and the enqueue of the second returned with the queue empty
OneEventPerPayload ==
  /\ Started /\ current.config.batchMax = 1 /\ last.append = 1
  /\ current.seq = 2 /\ Len(net) >= 2
  /\ \A i \in 1..Len(net) : Len(net[i].events) = 1

\* the events that are in a payload a transport took or in the queue
Held ==
  Events(SelectSeq(net, LAMBDA c : ~c.threw))
    \o (IF Started THEN current.queue ELSE <<>>)

\* C19: a flush that finds events takes the whole queue into one payload and
\* leaves the queue and the byte counter empty whatever the transport does; no
\* event is in two payloads, twice in the queue, or in a payload and in the
\* queue; the first event pushed after a drain is alone in the queue
DrainedOnce ==
  [][/\ ((FlushStep /\ last'.flushes >= 1)
           => (/\ last'.flushes = 1
               /\ current'.queue = <<>> /\ current'.queueBytes = 0
               /\ Len(NewCalls) >= 1
               /\ \A i \in 1..Len(NewCalls) : NewCalls[i].events = current.queue))
      /\ (\A i, j \in 1..Len(Held') : i # j => Held'[i].uid # Held'[j].uid)
      /\ ((last'.append = 1 /\ current'.queue # <<>>)
           => (Len(current'.queue) = 1 /\ current'.queue[1].uid = made'))]_vars

\* C19 witness: the page was hidden, sendBeacon returned false, and the event
\* it was given is neither queued again nor sent again
BeaconRefusedNotRequeued ==
  /\ Started /\ last.op = "signal" /\ last.beacon = "false" /\ last.flushes = 1
  /\ current.queue = <<>> /\ Len(net) = 1 /\ Len(net[1].events) = 1

\* the seq values of a sequence of events increase strictly
Increasing(es) == \A i \in 1..(Len(es) - 1) : es[i].seq < es[i + 1].seq

\* the payloads of pipeline run r in the order they were built, and after
\* them the queue when r is the running pipeline
RunOrder(r) ==
  Events(SelectSeq(net, LAMBDA c : ~c.threw /\ c.run = r))
    \o (IF Started /\ starts = r THEN current.queue ELSE <<>>)

\* C20: within each payload the events are in strictly increasing seq order,
\* and along one pipeline run every event of an earlier payload has a smaller
\* seq than every event of a later payload and than every event still queued
SeqOrderKept ==
  /\ \A i \in 1..Len(net) : Increasing(net[i].events)
  /\ \A r \in 1..starts : Increasing(RunOrder(r))

\* C20 witness: one run sent a payload of two events and then a payload with
\* the third
TwoPayloadsInOrder ==
  /\ Len(net) = 2 /\ net[1].run = net[2].run
  /\ Len(net[1].events) = 2 /\ Len(net[2].events) = 1
  /\ net[2].events[1].seq = 3

RECURSIVE SumBytes(_)
\* the serialized sizes of a sequence of events, added up
SumBytes(es) == IF es = <<>> THEN 0 ELSE Head(es).bytes + SumBytes(Tail(es))

\* C21: whenever a handler has returned, queueBytes is the sum of the sizes
\* measured when the queued events were appended, and it is 0 exactly when
\* the queue is empty
QueueBytesIsSum ==
  Started => /\ current.queueBytes = SumBytes(current.queue)
             /\ (current.queueBytes = 0 <=> current.queue = <<>>)

\* C21 witness: two events of different sizes are queued
TwoSizesQueued ==
  /\ Started /\ Len(current.queue) = 2
  /\ current.queue[1].bytes # current.queue[2].bytes
  /\ current.queueBytes > 2

\* the size enqueue measures for trackEvent(c.name, c.data)
MeasuredSize(c) ==
  IF current.config.beforeSend = Some("scrub") THEN 1 ELSE Serialized(c.data)

\* C22: enqueue takes the byte-cap branch exactly when the event would bring
\* queueBytes over maxQueueBytes; it then sends the queued events in one
\* payload, and drops the new event exactly when its own size exceeds
\* maxQueueBytes; otherwise the new event is the first of the new queue
OverflowFlushesThenRechecks ==
  [][\A c \in TrackCalls :
       (/\ Started /\ current.sampled
        /\ Commit("track", trackEvent(World, c.name, c.data))
        /\ last'.hook \in {"none", "event"})
         => (/\ last'.byteFlush
                  = (current.queueBytes + MeasuredSize(c)
                       > current.config.maxQueueBytes)
             /\ (last'.byteFlush
                   => (/\ (current.queue # <<>>
                             => (/\ Len(NewCalls) = 1
                                 /\ NewCalls[1].events = current.queue))
                       /\ (current.queue = <<>> => net' = net)
                       /\ last'.tooBig
                            = (MeasuredSize(c) > current.config.maxQueueBytes)
                       /\ (last'.tooBig
                             => (current'.queue = <<>> /\ last'.append = 0))
                       /\ (~last'.tooBig
                             => (/\ Len(current'.queue) = 1
                                 /\ current'.queue[1].uid = made'
                                 /\ current'.queueBytes = MeasuredSize(c))))))]_vars

\* C22 witness: the second event did not fit beside the first, the first was
\* sent and the second now heads the queue
OverflowSentOlder ==
  /\ Started /\ last.byteFlush /\ ~last.tooBig
  /\ Len(net) = 1 /\ net[1].events[1].seq = 1
  /\ Len(current.queue) = 1 /\ current.queue[1].seq = 2

\* C23 as stated: on every page-hide and every unload signal of a sampled
\* pipeline the persisted session's last-activity time becomes the current
\* time and the queue is flushed
SignalRefreshesThenFlushes ==
  [][((Hide \/ Unload({"ok"}))
        /\ Started /\ current.sampled /\ IsRecord(lsSession))
       => (lsSession'.last = clock /\ current'.queue = <<>>)]_vars

\* C23, the unload half alone, which the code keeps
UnloadRefreshesThenFlushes ==
  [][(Unload({"ok"}) /\ Started /\ current.sampled /\ IsRecord(lsSession))
       => (lsSession'.last = clock /\ current'.queue = <<>>)]_vars

\* C24: a user-activity signal rewrites the persisted record with only its
\* last field changed, to the current time, and writes nothing when no record
\* is stored; a tick of the flush timer leaves the persisted record as it is
RefreshTouchesLastOnly ==
  [][/\ (Activity({"ok"})
           => (/\ lsSession' = (IF IsRecord(lsSession)
                                THEN [lsSession EXCEPT !.last = clock]
                                ELSE lsSession)
               /\ lsDevice' = lsDevice))
      /\ (TimerTick => (lsSession' = lsSession /\ lsDevice' = lsDevice))]_vars

\* C24 witness: the flush timer sent the queue while the persisted record was
\* two time units old, and the record still is
TimerFlushedOldSession ==
  /\ Started /\ last.op = "flush" /\ last.flushes = 1
  /\ IsRecord(lsSession) /\ lsSession.id = current.sessionId
  /\ clock - lsSession.last = MaxTime

\* a running pipeline whose activity listeners find no record stored, after
\* time has passed
NoRecordToRefresh ==
  /\ Started /\ lsSession = None /\ listeners.activity > 0 /\ clock > 0

\* C26 as stated: a session id whose record has been older than sessionTtlMs
\* is not the id of any pipeline started afterwards
ExpiredIdNeverReturned ==
  [][(~Started /\ current' # Null) => current'.sessionId \notin expired]_vars

\* C25 as stated, with a TTL that no session of the behaviour outlives: once
\* a record is persisted its id and sampled flag stay, whatever the tabs
\* interleave, and when every tab runs each of them uses the persisted id
TabsKeepOneSession ==
  [][/\ (IsRecord(lsSession)
           => (/\ lsSession'.id = lsSession.id
               /\ lsSession'.sampled = lsSession.sampled))
      /\ ((\A t \in 1..MaxTabs : tabs'[t].pc = "running")
           => (\A t \in 1..MaxTabs : tabs'[t].held.id = lsSession'.id))]_vars

\* event u is in the queue of the running pipeline
Queued(u) ==
  Started /\ \E i \in 1..Len(current.queue) : current.queue[i].uid = u

\* event u is in exactly one payload that a transport took
SentOnce(u) ==
  Cardinality({i \in 1..Len(net) :
                 /\ ~net[i].threw
                 /\ \E j \in 1..Len(net[i].events) : net[i].events[j].uid = u})
    = 1

\* C27: while the flush timer keeps ticking, every event in the queue is
\* eventually in exactly one payload handed to a transport, unless the
\* pipeline is shut down first
QueuedIsEventuallySent ==
  \A u \in 1..MaxEvents : Queued(u) ~> (SentOnce(u) \/ ~Started)

\* C27 witness: two queued events left together in one payload of a flush
\* that no threshold forced, and the pipeline is still running
QueueDrainedByFlush ==
  /\ Started /\ last.op = "flush" /\ last.flushes = 1 /\ current.queue = <<>>
  /\ Len(net) = 1 /\ Len(net[1].events) = 2 /\ SentOnce(1) /\ SentOnce(2)

\* the uids of the events of a sequence
Uids(es) == {es[i].uid : i \in 1..Len(es)}

\* the events built so far that are neither queued nor in any transport call
Gone ==
  (1..made) \ (Uids(Events(net))
                 \cup (IF Started THEN Uids(current.queue) ELSE {}))

\* C28: shutdown() makes no transport call and leaves no pipeline; an event
\* that is neither queued nor sent, as the events queued at shutdown are, is
\* in no later transport call; and startRum returns with seq 0 and an empty
\* queue (the configs of this specification emit no initial page view)
ShutdownDropsQueue ==
  [][/\ ((Shutdown /\ Started)
           => (/\ net' = net /\ current' = Null
               /\ Uids(current.queue) \subseteq Gone'))
      /\ Gone \subseteq Gone'
      /\ ((~Started /\ current' # Null)
           => (/\ current'.queue = <<>> /\ current'.seq = 0
               /\ current'.queueBytes = 0 /\ net' = net))]_vars

\* C28 witness: an event was queued when the first pipeline was shut down;
\* the second pipeline has flushed and been hidden, and nothing was ever sent
QueuedEventLost ==
  /\ Started /\ starts = 2 /\ made = 1 /\ Gone = {1} /\ net = <<>>
  /\ appConfig.beforeSend = Undefined /\ appConfig.maxQueueBytes = Undefined
  /\ current.seq = 0 /\ last.op \in {"flush", "signal"}

\* C29 as stated: a readiness poll is active only while the fallback timer of
\* the same startup is still pending
PollEndsWithFallback ==
  \A k \in 1..MaxLoads : races[k].poll => races[k].fallback

====
